---------------------------- MODULE Spec2Model ----------------------------
(***************************************************************************)
(* A model of squad_map_randomizer.py: the rotation builder               *)
(* (get_map_rotation with its nested apply_filter_config and               *)
(* populate_chosen_rotation), the duplicate-avoiding selector              *)
(* (get_nonduplicate_map) and the configuration validator                  *)
(* (validate_config, validate_helper).                                     *)
(*                                                                         *)
(* Encoding of Python values.  Attribute values of a layer and the values  *)
(* of a filter are TLA+ strings; Python's None is the string PyNone.  A    *)
(* layer (a dict) is a TLA+ function from its keys to its values, so a     *)
(* missing key is a name outside its DOMAIN.  A value whose Python type    *)
(* matters (a config section, a slot of a section, the value of a filter   *)
(* key) is a record tagged with its type in field t:                       *)
(*    [t |-> "none"]             None                                      *)
(*    [t |-> "str",  s |-> ..]   a str                                     *)
(*    [t |-> "int",  n |-> ..]   an int                                    *)
(*    [t |-> "list", l |-> ..]   a list (a sequence)                       *)
(*    [t |-> "map",  m |-> ..]   a dict: the sequence of its items, each   *)
(*                               [key |-> .., value |-> ..], in insertion  *)
(*                               order                                     *)
(* collections.Mapping is read as collections.abc.Mapping, as it was in    *)
(* the Python versions the script was written for.                         *)
(***************************************************************************)
EXTENDS Integers, Sequences, FiniteSets, TLC

VARIABLES
    rotation_config,    \* the config dict given to the validator and the builder
    catalog,            \* the list of layers given as all_layers / layers (main: the result of get_json_layers)
    min_layers,         \* num_min_layers_before_duplicate_map
    heap,               \* the list objects: name of the object -> its contents
    remaining_layers,   \* the object the name remaining_layers is bound to ("unbound" before line 206)
    chosen_rotation,    \* the list chosen_rotation of get_map_rotation
    descriptions,       \* the descriptions, parallel to chosen_rotation
    chosen_filters,     \* history: the filter_config of the slot each chosen layer filled
    pc,                 \* where the run is: "main", "parse_config", "start", "populate", "select", "done",
                        \* "written", "exit", "raised", "validated"
    phase,              \* which section populate_chosen_rotation is iterating: "starting" or "regular"
    rep,                \* how many iterations of the loop of line 222 have begun
    idx,                \* 1 + the idx of line 189: the slot of the current section being processed
    attempts,           \* how many iterations of the loop of line 123 have ended without a return
    candidate_layer,    \* the local candidate_layer of get_nonduplicate_map (a one-element sequence, or <<>>)
    log,                \* the calls of logging.error so far, in order
    exc,                \* the exception that ended the run, or "none"
    entry,              \* the function the run began in: "main", "get_map_rotation", "validate_config"
    layers_file,        \* the list of layers of the JSON layers file read by get_json_layers
    output_file,        \* the output file: <<>> before write_rotation, then <<the layers written>>
    webhook             \* the messages the Discord webhook has received, in order

\* what only main and its collaborators read or write
io == <<entry, layers_file, output_file, webhook>>

vars == <<rotation_config, catalog, min_layers, heap, remaining_layers, chosen_rotation,
          descriptions, chosen_filters, pc, phase, rep, idx, attempts, candidate_layer, log, exc,
          entry, layers_file, output_file, webhook>>

-----------------------------------------------------------------------------
(* Bounds of the model *)

\* the longest catalog
MaxCatalog == 3
\* the longest regular_maps list
MaxPattern == 2
\* the largest number_of_repeats
MaxRepeats == 2
\* the largest num_min_layers_before_duplicate_map
MaxMinLayers == 2

\* the number of iterations of the selector's loop, range(100)
MaxAttempts == 100

-----------------------------------------------------------------------------
(* Python values *)

PyNone == "None"

Max(a, b) == IF a >= b THEN a ELSE b
Min(a, b) == IF a <= b THEN a ELSE b

Range(s) == {s[i] : i \in 1..Len(s)}

\* dict.get(key): the value, or None for a missing key
Get(d, key) == IF key \in DOMAIN d THEN d[key] ELSE PyNone

\* dict.get(key, default) on a config
GetOr(d, key, default) == IF key \in DOMAIN d THEN d[key] ELSE default

\* str.casefold(), on the strings the model uses
Casefold(s) ==
    CASE s \in {"any", "ANY", "Any"} -> "any"
      [] s = "BLARGH" -> "blargh"
      [] OTHER -> s

\* a remove that removes nothing: the pool keeps the chosen layer
RemoveNothing(s, x) == s

\* a remove that drops the first layer of the pool, whichever layer was chosen
RemoveHead(s, x) == Tail(s)

\* list.remove(x): the list without its first element equal to x
RECURSIVE Remove(_, _)
Remove(s, x) ==
    IF s = <<>> THEN <<>>
    ELSE IF Head(s) = x THEN Tail(s)
    ELSE <<Head(s)>> \o Remove(Tail(s), x)

\* seq[-n:] for n >= 1
LastN(s, n) == SubSeq(s, Max(1, Len(s) - n + 1), Len(s))


-----------------------------------------------------------------------------
(* The inputs: layers, catalogs, filters, configs *)

\* the i-th layer of the layers file the catalogs are cut from
LayerAt(i) ==
    [layer    |-> "L" \o ToString(i),
     map      |-> IF i % 3 = 0 THEN "B" ELSE "A",
     gamemode |-> CASE i % 4 = 1 -> "AAS"
                    [] i % 4 = 2 -> "RAAS"
                    [] i % 4 = 3 -> "AAS"
                    [] OTHER     -> "Skirmish",
     team1    |-> CASE i % 4 = 1 -> "RU"
                    [] i % 4 = 2 -> "US"
                    [] i % 4 = 3 -> "RU"
                    [] OTHER     -> "INS",
     team2    |-> CASE i % 4 = 1 -> "US"
                    [] i % 4 = 2 -> "US"
                    [] i % 4 = 3 -> "INS"
                    [] OTHER     -> "US",
     bugged   |-> "False"]

\* the layers LayerAt(i) for i in S, in the order of i
RECURSIVE LayersOf(_)
LayersOf(S) ==
    IF S = {} THEN <<>>
    ELSE LET i == CHOOSE j \in S : \A k \in S : j <= k
         IN  <<LayerAt(i)>> \o LayersOf(S \ {i})

PyStr(v) == [t |-> "str", s |-> v]
PyList(l) == [t |-> "list", l |-> l]
PyInt(n) == [t |-> "int", n |-> n]
NoneValue == [t |-> "none"]
PyDict(items) == [t |-> "map", m |-> items]
DictItem(k, v) == [key |-> k, value |-> v]

FilterAny == PyStr("any")
FilterAnyUpper == PyStr("ANY")
FilterMapA == PyDict(<<DictItem("map", PyStr("A"))>>)
FilterModeTeam == PyDict(<<DictItem("gamemode", PyList(<<"AAS", "RAAS">>)), DictItem("team", PyStr("US"))>>)
FilterTeamMisspelled == PyDict(<<DictItem("team", PyList(<<"misspelled_name">>))>>)

-----------------------------------------------------------------------------
(* get_map_rotation: the nested helpers *)

\* upgrade_to_list (lines 153-154)
upgrade_to_list(value) == IF value.t = "list" THEN value.l ELSE <<value.s>>

\* lines 167-168
should_skip_filter(filter_config) ==
    filter_config.t = "str" /\ Casefold(filter_config.s) = "any"

\* lines 173-176: the keys one filter key stands for
FilterKeys(key) == IF key = "team" THEN <<"team1", "team2">> ELSE <<key>>

\* the comprehension of lines 179-180 for one layer: the layer once for every k of keys
\* whose value is among the accepted values
RECURSIVE LayerPerKey(_, _, _)
LayerPerKey(layer, keys, value) ==
    IF keys = <<>> THEN <<>>
    ELSE (IF Get(layer, Head(keys)) \in Range(value) THEN <<layer>> ELSE <<>>)
         \o LayerPerKey(layer, Tail(keys), value)

\* the comprehension of lines 179-180
RECURSIVE FilterByKey(_, _, _)
FilterByKey(layers, keys, value) ==
    IF layers = <<>> THEN <<>>
    ELSE LayerPerKey(Head(layers), keys, value) \o FilterByKey(Tail(layers), keys, value)

\* a filter that stops after its first key: the keys are not ANDed
FilterByFirstItem(layers, items) ==
    IF items = <<>> THEN layers
    ELSE FilterByKey(layers, FilterKeys(Head(items).key), upgrade_to_list(Head(items).value))

\* the loop of lines 170-180 over the items of the filter
RECURSIVE FilterByItems(_, _)
FilterByItems(layers, items) ==
    IF items = <<>> THEN layers
    ELSE FilterByItems(
             FilterByKey(layers, FilterKeys(Head(items).key), upgrade_to_list(Head(items).value)),
             Tail(items))

\* filter_config.items() raises AttributeError on anything but a dict (line 170)
FilterRaises(filter_config) ==
    ~should_skip_filter(filter_config) /\ filter_config.t # "map"

\* apply_filter_config (lines 156-181), for a filter_config that does not raise
apply_filter_config(layers, filter_config) ==
    IF should_skip_filter(filter_config) THEN layers
    ELSE FilterByItems(layers, filter_config.m)

\* the description of a slot: ["any"] for the sentinel, else every accepted value of
\* every clause, in configuration order
RECURSIVE DescribeItems(_)
DescribeItems(items) ==
    IF items = <<>> THEN <<>>
    ELSE upgrade_to_list(Head(items).value) \o DescribeItems(Tail(items))

\* a description that lists nothing for the sentinel
DescriptionWithoutAny(filter_config) ==
    IF should_skip_filter(filter_config) THEN <<>>
    ELSE DescribeItems(filter_config.m)

Description(filter_config) ==
    IF should_skip_filter(filter_config) THEN <<"any">>
    ELSE DescribeItems(filter_config.m)

-----------------------------------------------------------------------------
(* get_nonduplicate_map: the window *)

\* a window of the last layer only, whatever the minimum distance
ClampedToOne(rotation, n) == 1

\* a clamp without its lower bound: min(len(chosen_rotation), n)
ClampedNoFloor(rotation, n) == Min(Len(rotation), n)

\* lines 117-118
ClampedMinLayers(rotation, n) == Max(1, Min(Len(rotation), n))

\* line 122
layers_to_avoid_duplicating(rotation, n) == LastN(rotation, ClampedMinLayers(rotation, n))

\* line 125: the maps of the window
MapsToAvoid(rotation, n) ==
    {layers_to_avoid_duplicating(rotation, n)[i]["map"] :
        i \in 1..Len(layers_to_avoid_duplicating(rotation, n))}

-----------------------------------------------------------------------------
(* get_map_rotation: the sections of the config and the order of the slots *)

\* a builder with the validator's default for the seeding section, ['any']
StartingDefaultAny(config) == GetOr(config, "starting_maps", PyList(<<[t |-> "str", s |-> "any"]>>))

\* line 212
starting_maps_config(config) == GetOr(config, "starting_maps", PyList(<<>>))

\* line 220
number_of_repeats(config) == GetOr(config, "number_of_repeats", PyInt(1))

\* line 221
regular_maps_config(config) == GetOr(config, "regular_maps", NoneValue)

\* the characters of a str, on the strings the model uses
StrChars(s) ==
    CASE s = "" -> <<>>
      [] s = "any" -> <<"a", "n", "y">>
      [] s = "blargh" -> <<"b", "l", "a", "r", "g", "h">>
      [] OTHER -> <<s>>

RECURSIVE EachAsStr(_)
EachAsStr(strings) ==
    IF strings = <<>> THEN <<>> ELSE <<PyStr(Head(strings))>> \o EachAsStr(Tail(strings))

RECURSIVE KeysOf(_)
KeysOf(items) ==
    IF items = <<>> THEN <<>> ELSE <<Head(items).key>> \o KeysOf(Tail(items))

\* enumerate(maps_config) of line 189 raises TypeError on None and on an int
Iterable(section) == section.t \in {"list", "str", "map"}

\* what the loop of line 189 iterates over: the elements of a list, the characters of a
\* str, the keys of a dict
SlotsOf(section) ==
    CASE section.t = "list" -> section.l
      [] section.t = "str" -> EachAsStr(StrChars(section.s))
      [] section.t = "map" -> EachAsStr(KeysOf(section.m))
      [] OTHER -> <<>>

\* the maps_config populate_chosen_rotation is iterating
maps_config(config, ph) ==
    IF ph = "starting" THEN starting_maps_config(config) ELSE regular_maps_config(config)

Position(p, ph, r, i, e) == [pc |-> p, phase |-> ph, rep |-> r, idx |-> i, exc |-> e]

\* a loop that runs the pattern once more than number_of_repeats
RegularFromOneMore(config, r) ==
    IF r > number_of_repeats(config).n THEN Position("done", "regular", r, 1, "none")
    ELSE Position("populate", "regular", r + 1, 1, "none")

\* lines 222-224 after r iterations of the loop have begun: the next call of
\* populate_chosen_rotation on regular_maps, or the return of line 226
RegularFrom(config, r) ==
    IF r >= number_of_repeats(config).n THEN Position("done", "regular", r, 1, "none")
    ELSE IF ~Iterable(regular_maps_config(config))
         THEN Position("raised", "regular", r + 1, 1, "TypeError")
    ELSE IF Len(SlotsOf(regular_maps_config(config))) = 0
         THEN Position("done", "regular", number_of_repeats(config).n, 1, "none")
    ELSE Position("populate", "regular", r + 1, 1, "none")

\* the loop of line 189 reaching slot i of the current section: that slot, or, past the
\* end of the section, what follows the call (lines 219-226)
SlotAt(config, ph, r, i) ==
    IF i <= Len(SlotsOf(maps_config(config, ph))) THEN Position("populate", ph, r, i, "none")
    ELSE IF ph = "starting" /\ number_of_repeats(config).t # "int"
         THEN Position("raised", "regular", 0, 1, "TypeError")
    ELSE RegularFrom(config, r)

\* lines 212-217: the first slot
FirstSlot(config) ==
    IF ~Iterable(starting_maps_config(config))
    THEN Position("raised", "starting", 0, 1, "TypeError")
    ELSE SlotAt(config, "starting", 0, 1)

\* no copy: remaining_layers is the list that was passed in
AliasObject == "all_layers"

\* copy.deepcopy(all_layers) of line 206 makes a new list object
DeepCopyObject == "copy"

-----------------------------------------------------------------------------
(* The state of a run *)

\* the filter of the slot being processed
filter_config == SlotsOf(maps_config(rotation_config, phase))[idx]

\* the contents of the working pool
Pool == heap[remaining_layers]

\* line 190
filtered_layers == apply_filter_config(Pool, filter_config)

MoveTo(pos) ==
    /\ pc' = pos.pc
    /\ phase' = pos.phase
    /\ rep' = pos.rep
    /\ idx' = pos.idx
    /\ exc' = pos.exc

Raise(e) ==
    /\ pc' = "raised"
    /\ exc' = e
    /\ UNCHANGED <<phase, rep, idx>>

NoMapsError(fc) == [error |-> "No maps to choose from", filter_config |-> fc]
NoValidMapError(layer) == [error |-> "Could not get a valid map without duplicates", layer |-> layer]

\* lines 201-203 and the next iteration of the loop of line 189
AppendChosen(chosen_layer) ==
    /\ chosen_rotation' = Append(chosen_rotation, chosen_layer)
    /\ descriptions' = Append(descriptions, Description(filter_config))
    /\ chosen_filters' = Append(chosen_filters, filter_config)
    /\ heap' = [heap EXCEPT ![remaining_layers] = Remove(@, chosen_layer)]
    /\ MoveTo(SlotAt(rotation_config, phase, rep, idx + 1))
    /\ attempts' = 0
    /\ candidate_layer' = <<>>

-----------------------------------------------------------------------------
(* The actions *)

\* get_map_rotation, lines 205-217: the working copy, the empty rotation, the first slot
GetMapRotation ==
    /\ pc = "start"
    /\ heap' = [heap EXCEPT ![DeepCopyObject] = heap["all_layers"]]
    /\ remaining_layers' = DeepCopyObject
    /\ chosen_rotation' = <<>>
    /\ descriptions' = <<>>
    /\ chosen_filters' = <<>>
    /\ MoveTo(FirstSlot(rotation_config))
    /\ UNCHANGED <<rotation_config, catalog, min_layers, attempts, candidate_layer, log>>
    /\ UNCHANGED io

\* a skip that leaves the loop of line 189 (break for continue)
SkipFilterBreaks ==
    /\ pc = "populate"
    /\ ~FilterRaises(filter_config)
    /\ filtered_layers = <<>>
    /\ log' = Append(log, NoMapsError(filter_config))
    /\ MoveTo(SlotAt(rotation_config, phase, rep,
                     Len(SlotsOf(maps_config(rotation_config, phase))) + 1))
    /\ UNCHANGED <<rotation_config, catalog, min_layers, heap, remaining_layers,
                   chosen_rotation, descriptions, chosen_filters, attempts, candidate_layer>>
    /\ UNCHANGED io

\* a skip that logs no error
SkipFilterSilently ==
    /\ pc = "populate"
    /\ IF FilterRaises(filter_config)
       THEN Raise("AttributeError")
       ELSE /\ filtered_layers = <<>>
            /\ MoveTo(SlotAt(rotation_config, phase, rep, idx + 1))
    /\ UNCHANGED <<rotation_config, catalog, min_layers, heap, remaining_layers,
                   chosen_rotation, descriptions, chosen_filters, attempts, candidate_layer, log>>
    /\ UNCHANGED io

\* populate_chosen_rotation, lines 189-195: a slot whose filter leaves no layer is skipped
\* (and a slot that is no filter raises)
SkipFilter ==
    /\ pc = "populate"
    /\ IF FilterRaises(filter_config)
       THEN /\ Raise("AttributeError")
            /\ UNCHANGED log
       ELSE /\ filtered_layers = <<>>
            /\ log' = Append(log, NoMapsError(filter_config))
            /\ MoveTo(SlotAt(rotation_config, phase, rep, idx + 1))
    /\ UNCHANGED <<rotation_config, catalog, min_layers, heap, remaining_layers,
                   chosen_rotation, descriptions, chosen_filters, attempts, candidate_layer>>
    /\ UNCHANGED io

\* populate_chosen_rotation, lines 199-200: the call of get_nonduplicate_map
CallSelector ==
    /\ pc = "populate"
    /\ ~FilterRaises(filter_config)
    /\ filtered_layers # <<>>
    /\ pc' = "select"
    /\ attempts' = 0
    /\ candidate_layer' = <<>>
    /\ UNCHANGED <<rotation_config, catalog, min_layers, heap, remaining_layers,
                   chosen_rotation, descriptions, chosen_filters, phase, rep, idx, log, exc>>
    /\ UNCHANGED io

\* get_nonduplicate_map, lines 123-133: one iteration of the loop, and on a return the
\* lines 201-203 of the caller
Draw ==
    /\ pc = "select"
    /\ attempts < MaxAttempts
    /\ \E i \in 1..Len(filtered_layers) :
         LET candidate == filtered_layers[i] IN
         IF "map" \notin DOMAIN candidate
         THEN /\ Raise("KeyError")
              /\ candidate_layer' = <<candidate>>
              /\ UNCHANGED <<heap, chosen_rotation, descriptions, chosen_filters, attempts>>
         ELSE IF candidate["map"] \notin MapsToAvoid(chosen_rotation, min_layers)
         THEN AppendChosen(candidate)
         ELSE IF \/ "layer" \notin DOMAIN candidate
                 \/ \E j \in 1..Len(layers_to_avoid_duplicating(chosen_rotation, min_layers)) :
                       "layer" \notin DOMAIN layers_to_avoid_duplicating(chosen_rotation, min_layers)[j]
         THEN /\ Raise("KeyError")
              /\ candidate_layer' = <<candidate>>
              /\ UNCHANGED <<heap, chosen_rotation, descriptions, chosen_filters, attempts>>
         ELSE /\ candidate_layer' = <<candidate>>
              /\ attempts' = attempts + 1
              /\ UNCHANGED <<heap, chosen_rotation, descriptions, chosen_filters, pc, phase, rep, idx, exc>>
    /\ UNCHANGED <<rotation_config, catalog, min_layers, remaining_layers, log>>
    /\ UNCHANGED io

\* a give-up that returns the last candidate without logging the error
GiveUpSilently ==
    /\ pc = "select"
    /\ attempts = MaxAttempts
    /\ log' = log
    /\ AppendChosen(candidate_layer[1])
    /\ UNCHANGED <<rotation_config, catalog, min_layers, remaining_layers>>
    /\ UNCHANGED io

\* a selector that starts its loop again when every attempt collided
GiveUpRetries ==
    /\ pc = "select"
    /\ attempts = MaxAttempts
    /\ attempts' = 0
    /\ UNCHANGED <<rotation_config, catalog, min_layers, heap, remaining_layers, chosen_rotation,
                   descriptions, chosen_filters, pc, phase, rep, idx, candidate_layer, log, exc>>
    /\ UNCHANGED io

\* get_nonduplicate_map, lines 135-137: every attempt collided; the last candidate is
\* logged and returned, and the caller goes on with lines 201-203
GiveUp ==
    /\ pc = "select"
    /\ attempts = MaxAttempts
    /\ log' = Append(log, NoValidMapError(candidate_layer[1]["layer"]))
    /\ AppendChosen(candidate_layer[1])
    /\ UNCHANGED <<rotation_config, catalog, min_layers, remaining_layers>>
    /\ UNCHANGED io

-----------------------------------------------------------------------------
(* The runs of the builder *)

Catalogs == {LayersOf(1..n) : n \in 0..MaxCatalog}

StartingLists == {<<FilterTeamMisspelled, FilterAnyUpper>>}
PatternFilters == {FilterAny, FilterMapA, FilterModeTeam}

SeqsUpTo(S, n) == UNION {[1..k -> S] : k \in 1..n}

\* the dict of a set of <<key, value>> pairs
MakeDict(entries) ==
    [k \in {e[1] : e \in entries} |-> (CHOOSE e \in entries : e[1] = k)[2]]

Optional(key, values) == {{}} \cup {{<<key, v>>} : v \in values}

BuildConfigs ==
    {MakeDict(a \cup b \cup c) :
        a \in Optional("starting_maps", {PyList(l) : l \in StartingLists}),
        b \in Optional("number_of_repeats", {PyInt(MaxRepeats)}),
        c \in {{<<"regular_maps", PyList(p)>>} : p \in SeqsUpTo(PatternFilters, MaxPattern)}}

Init ==
    /\ rotation_config \in BuildConfigs
    /\ catalog \in Catalogs
    /\ min_layers \in {1, MaxMinLayers}
    /\ heap = [all_layers |-> catalog, copy |-> <<>>]
    /\ remaining_layers = "unbound"
    /\ chosen_rotation = <<>>
    /\ descriptions = <<>>
    /\ chosen_filters = <<>>
    /\ pc = "start"
    /\ phase = "starting"
    /\ rep = 0
    /\ idx = 1
    /\ attempts = 0
    /\ candidate_layer = <<>>
    /\ log = <<>>
    /\ exc = "none"
    /\ entry = "get_map_rotation"
    /\ layers_file = <<>>
    /\ output_file = <<>>
    /\ webhook = <<>>

Next == GetMapRotation \/ SkipFilter \/ CallSelector \/ Draw \/ GiveUp

Spec == Init /\ [][Next]_vars

-----------------------------------------------------------------------------
(* validate_config and validate_helper *)

\* all(layer.get(key) is not None for layer in layers)
AllLayersHave(layers, key) == \A i \in 1..Len(layers) : Get(layers[i], key) # PyNone

\* a team key that no catalog makes valid
KeyIsTeamNever(key, layers) == FALSE

\* key_is_team (lines 263-266)
key_is_team(key, layers) ==
    /\ key = "team"
    /\ AllLayersHave(layers, "team1")
    /\ AllLayersHave(layers, "team2")

\* lines 270-284 for one filter_config: "ok" or the exception raised
ValidateFilter(slot, layers) ==
    IF slot.t = "str"
    THEN (IF Casefold(slot.s) = "any" THEN "ok" ELSE "InvalidConfigException")
    ELSE IF slot.t # "map" THEN "InvalidConfigException"
    ELSE IF \E k \in 1..Len(slot.m) :
                ~key_is_team(slot.m[k].key, layers) /\ ~AllLayersHave(layers, slot.m[k].key)
         THEN "InvalidConfigException"
    ELSE "ok"

\* the loop of line 268 from slot i on: the first exception raised, or "ok"
RECURSIVE ValidateFrom(_, _, _)
ValidateFrom(slots, i, layers) ==
    IF i > Len(slots) THEN "ok"
    ELSE IF ValidateFilter(slots[i], layers) # "ok" THEN ValidateFilter(slots[i], layers)
    ELSE ValidateFrom(slots, i + 1, layers)

\* validate_helper (lines 256-285): "ok" or the exception raised; iterating None or an
\* int raises TypeError
validate_helper(section, layers) ==
    IF ~Iterable(section) THEN "TypeError"
    ELSE ValidateFrom(SlotsOf(section), 1, layers)

\* len(x) < 1 of a list
IsEmptyList(section) == section.t = "list" /\ Len(section.l) < 1

\* validate_config (lines 288-327): "ok" or the exception raised.  The catalogs of the
\* model are lists of dicts, so of the test of lines 298-300 only the length is left
validate_config(config, layers) ==
    LET regular == GetOr(config, "regular_maps", NoneValue)
        starting == GetOr(config, "starting_maps", PyList(<<FilterAny>>))
        repeats == GetOr(config, "number_of_repeats", PyInt(1))
    IN  IF Len(layers) < 1 THEN "InvalidConfigException"
        ELSE IF regular.t = "none" \/ regular.t # "list" \/ IsEmptyList(regular)
             THEN "InvalidConfigException"
        ELSE IF starting.t # "none" /\ (starting.t # "list" \/ IsEmptyList(starting))
             THEN "InvalidConfigException"
        ELSE IF repeats.t # "int" THEN "InvalidConfigException"
        ELSE IF repeats.n < 1 THEN "InvalidConfigException"
        ELSE IF validate_helper(starting, layers) # "ok"
             THEN validate_helper(starting, layers)
        ELSE validate_helper(regular, layers)

\* a call of validate_config on the config and the catalog
ValidateConfig ==
    /\ pc = "start"
    /\ IF validate_config(rotation_config, catalog) = "ok"
       THEN pc' = "validated" /\ exc' = exc
       ELSE pc' = "raised" /\ exc' = validate_config(rotation_config, catalog)
    /\ UNCHANGED <<rotation_config, catalog, min_layers, heap, remaining_layers,
                   chosen_rotation, descriptions, chosen_filters, phase, rep, idx,
                   attempts, candidate_layer, log>>
    /\ UNCHANGED io

\* NUM_MIN_LAYERS_BEFORE_DUPLICATE_MAP
DefaultMinLayers == 3

\* a layer without one of its keys, and with None for one of its keys
DropKey(layer, key) == [k \in DOMAIN layer \ {key} |-> layer[k]]
NullKey(layer, key) == [k \in DOMAIN layer |-> IF k = key THEN PyNone ELSE layer[k]]

\* a list with another element at one place
ReplaceAt(s, i, x) == [k \in 1..Len(s) |-> IF k = i THEN x ELSE s[k]]

\* the layers that make a catalog incompatible with some filter key
PartialLayers(i) ==
    {DropKey(LayerAt(i), "gamemode"), NullKey(LayerAt(i), "gamemode"),
     DropKey(LayerAt(i), "team2"), NullKey(LayerAt(i), "team1")}

\* a layer with one attribute named team in place of team1 and team2
TeamAttributeLayer(i) ==
    [k \in (DOMAIN LayerAt(i) \ {"team1", "team2"}) \cup {"team"} |->
        IF k = "team" THEN LayerAt(i)["team1"] ELSE LayerAt(i)[k]]

\* the catalogs handed to the validator: the empty one, the complete ones, the longest
\* one with one partial layer at any place, and one of layers with a team attribute
ValidatorCatalogs ==
    Catalogs \cup
    {ReplaceAt(LayersOf(1..MaxCatalog), i, x) : <<i, x>> \in
        UNION {{<<j, y>> : y \in PartialLayers(j)} : j \in 1..MaxCatalog}}
    \cup {[i \in 1..MaxCatalog |-> TeamAttributeLayer(i)]}

FilterUnknownKey ==
    PyDict(<<DictItem("map", PyStr("A")), DictItem("THIS_DOES_NOT_EXIST", PyStr("x"))>>)

ValidatorSlots ==
    {FilterAny, FilterAnyUpper, PyStr("blargh"), PyInt(123), FilterModeTeam, FilterUnknownKey}

\* the values of a section that are no list of slots
NoSlotLists == {NoneValue, PyStr("blargh"), PyList(<<>>)}

ValidatorConfigs ==
    {MakeDict(a \cup b \cup c) :
        a \in Optional("starting_maps",
                       NoSlotLists \cup {PyList(<<f>>) : f \in ValidatorSlots}),
        b \in Optional("number_of_repeats",
                       {NoneValue, PyStr("two")} \cup {PyInt(n) : n \in 0..MaxRepeats}),
        c \in Optional("regular_maps",
                       NoSlotLists \cup {PyList(p) : p \in SeqsUpTo(ValidatorSlots, MaxPattern)})}

InitValidate ==
    /\ rotation_config \in ValidatorConfigs
    /\ catalog \in ValidatorCatalogs
    /\ min_layers = DefaultMinLayers
    /\ heap = [all_layers |-> catalog, copy |-> <<>>]
    /\ remaining_layers = "unbound"
    /\ chosen_rotation = <<>>
    /\ descriptions = <<>>
    /\ chosen_filters = <<>>
    /\ pc = "start"
    /\ phase = "starting"
    /\ rep = 0
    /\ idx = 1
    /\ attempts = 0
    /\ candidate_layer = <<>>
    /\ log = <<>>
    /\ exc = "none"
    /\ entry = "validate_config"
    /\ layers_file = <<>>
    /\ output_file = <<>>
    /\ webhook = <<>>

NextValidate == ValidateConfig

SpecValidate == InitValidate /\ [][NextValidate]_vars

-----------------------------------------------------------------------------
(* main and its collaborators: get_json_layers, parse_config, write_rotation,
   send_rotation_to_discord *)

\* the truth value of an attribute value (not m['bugged'], line 95)
Truthy(v) == v \notin {"False", PyNone, ""}

\* a loader that keeps every layer of the file
KeepAllLayers(layers) == layers

\* line 95: the layers of the file that are not bugged, in the order of the file
RECURSIVE WithoutBugged(_)
WithoutBugged(layers) ==
    IF layers = <<>> THEN <<>>
    ELSE (IF Truthy(Head(layers)["bugged"]) THEN <<>> ELSE <<Head(layers)>>)
         \o WithoutBugged(Tail(layers))

\* get_layers (lines 234-236) and the lines of get_layers_string (229-231)
get_layers(map_rotation) == [i \in 1..Len(map_rotation) |-> map_rotation[i]["layer"]]

\* some layer has no 'layer' key: get_layers_string raises KeyError
LayersStringRaises(map_rotation) ==
    \E i \in 1..Len(map_rotation) : "layer" \notin DOMAIN map_rotation[i]

\* the values of args.discord_webhook_url: not given, or a URL
WebhookUrls == {PyNone, "https://discord.example/webhook"}

\* what webhook.execute() of line 253 can do: return, or raise (the post fails)
ExecuteOutcomes == {"returns", "raises"}

\* lines 249-250, without the date
discord_message(map_rotation) == [content |-> get_layers(map_rotation)]

\* main, line 348: get_json_layers (lines 77-95) reads the file and drops the bugged layers
GetJsonLayers ==
    /\ pc = "main"
    /\ IF \E i \in 1..Len(layers_file) : "bugged" \notin DOMAIN layers_file[i]
       THEN /\ Raise("KeyError")
            /\ UNCHANGED <<catalog, heap>>
       ELSE /\ catalog' = WithoutBugged(layers_file)
            /\ heap' = [heap EXCEPT !["all_layers"] = WithoutBugged(layers_file)]
            /\ pc' = "parse_config"
            /\ UNCHANGED <<phase, rep, idx, exc>>
    /\ UNCHANGED <<rotation_config, min_layers, remaining_layers, chosen_rotation,
                   descriptions, chosen_filters, attempts, candidate_layer, log>>
    /\ UNCHANGED io

\* main, line 349: parse_config (lines 339-342) validates the config against the layers
ParseConfig ==
    /\ pc = "parse_config"
    /\ IF validate_config(rotation_config, catalog) = "ok"
       THEN pc' = "start" /\ exc' = exc
       ELSE pc' = "raised" /\ exc' = validate_config(rotation_config, catalog)
    /\ UNCHANGED <<rotation_config, catalog, min_layers, heap, remaining_layers,
                   chosen_rotation, descriptions, chosen_filters, phase, rep, idx,
                   attempts, candidate_layer, log>>
    /\ UNCHANGED io

\* main, line 351: write_rotation (lines 239-242); open(.., 'w') has emptied the file
\* when get_layers_string raises
WriteRotation ==
    /\ pc = "done"
    /\ entry = "main"
    /\ IF LayersStringRaises(chosen_rotation)
       THEN /\ output_file' = <<<<>>>>
            /\ Raise("KeyError")
       ELSE /\ output_file' = <<get_layers(chosen_rotation)>>
            /\ pc' = "written"
            /\ UNCHANGED <<phase, rep, idx, exc>>
    /\ UNCHANGED <<rotation_config, catalog, min_layers, heap, remaining_layers,
                   chosen_rotation, descriptions, chosen_filters, attempts, candidate_layer, log>>
    /\ UNCHANGED <<entry, layers_file, webhook>>

\* main, line 352: send_rotation_to_discord (lines 245-253); an exception of
\* webhook.execute() leaves the function and main
SendRotationToDiscord ==
    /\ pc = "written"
    /\ \E discord_webhook_url \in WebhookUrls, outcome \in ExecuteOutcomes :
         IF ~Truthy(discord_webhook_url)
         THEN /\ pc' = "exit"
              /\ UNCHANGED <<webhook, exc>>
         ELSE IF outcome = "returns"
         THEN /\ webhook' = Append(webhook, discord_message(chosen_rotation))
              /\ pc' = "exit"
              /\ UNCHANGED exc
         ELSE /\ pc' = "raised"
              /\ exc' = "ConnectionError"
              /\ UNCHANGED webhook
    /\ UNCHANGED <<rotation_config, catalog, min_layers, heap, remaining_layers,
                   chosen_rotation, descriptions, chosen_filters, phase, rep, idx,
                   attempts, candidate_layer, log>>
    /\ UNCHANGED <<entry, layers_file, output_file>>

\* a list of layers with the layers at the places of B marked as bugged
MarkBugged(layers, B) ==
    [i \in 1..Len(layers) |->
        IF i \in B THEN [layers[i] EXCEPT !["bugged"] = "True"] ELSE layers[i]]

\* the places of the bugged layers of a layers file
BuggedPlaces == {{}, {2}, {1, 2}}

\* the layers files: complete layers, some of them bugged, and the longest file with one
\* key missing from its first layer
LayerFiles ==
    {MarkBugged(LayersOf(1..n), B \cap (1..n)) : n \in 0..MaxCatalog, B \in BuggedPlaces}
    \cup {ReplaceAt(LayersOf(1..MaxCatalog), 1, DropKey(LayerAt(1), k)) :
            k \in {"map", "layer", "bugged"}}

\* the catalogs a caller other than main hands to get_map_rotation
DirectCatalogs ==
    {MarkBugged(LayersOf(1..n), B \cap (1..n)) : n \in 1..MaxCatalog, B \in {{}, {2}}}

\* the minimum distances a caller other than main hands to get_map_rotation
Distances == {-1, 0, 1, MaxMinLayers + 1}

RunFilters == {FilterAny, FilterMapA}

\* the configs of the runs of main: a pattern only, and configs the validator refuses
\* a pattern of three slots, a filter between two 'any'
AnyFilterAny == <<FilterAny, FilterMapA, FilterAny>>

PatternOnlyConfigs ==
    {MakeDict({<<"regular_maps", PyList(p)>>}) :
        p \in SeqsUpTo(RunFilters, MaxPattern) \cup {AnyFilterAny}}

RefusedConfigs ==
    {MakeDict({}),
     MakeDict({<<"regular_maps", PyList(<<PyStr("blargh")>>)>>}),
     MakeDict({<<"starting_maps", NoneValue>>, <<"regular_maps", PyList(<<FilterAny>>)>>})}

\* the configs of the direct calls: the pattern run MaxRepeats times
RepeatedConfigs ==
    {MakeDict({<<"number_of_repeats", PyInt(MaxRepeats)>>, <<"regular_maps", PyList(p)>>}) :
        p \in SeqsUpTo(RunFilters, MaxPattern)}

\* a seeding list of two slots, a filter and then 'any'
SeedingList == <<FilterMapA, FilterAny>>

\* the longest patterns that begin with 'any': all 'any', and 'any' and a filter by turns
SeededPatterns ==
    {[i \in 1..MaxPattern |-> FilterAny],
     [i \in 1..MaxPattern |-> IF i % 2 = 1 THEN FilterAny ELSE FilterMapA]}

\* the configs with a seeding list: the two seeding slots, then the pattern run
\* MaxRepeats times
SeededConfigs ==
    {MakeDict({<<"starting_maps", PyList(SeedingList)>>,
               <<"number_of_repeats", PyInt(MaxRepeats)>>,
               <<"regular_maps", PyList(p)>>}) :
        p \in SeededPatterns}

\* a run of main (lines 345-352), or a call of get_map_rotation on a catalog and a
\* minimum distance of the caller's
InitMain ==
    /\ entry \in {"main", "get_map_rotation"}
    /\ IF entry = "main"
       THEN /\ pc = "main"
            /\ layers_file \in LayerFiles
            /\ catalog = <<>>
            /\ rotation_config \in PatternOnlyConfigs \cup RefusedConfigs \cup SeededConfigs
            /\ min_layers = DefaultMinLayers
       ELSE /\ pc = "start"
            /\ layers_file = <<>>
            /\ catalog \in DirectCatalogs
            /\ rotation_config \in RepeatedConfigs \cup SeededConfigs
            /\ min_layers \in Distances
    /\ heap = [all_layers |-> catalog, copy |-> <<>>]
    /\ remaining_layers = "unbound"
    /\ chosen_rotation = <<>>
    /\ descriptions = <<>>
    /\ chosen_filters = <<>>
    /\ phase = "starting"
    /\ rep = 0
    /\ idx = 1
    /\ attempts = 0
    /\ candidate_layer = <<>>
    /\ log = <<>>
    /\ exc = "none"
    /\ output_file = <<>>
    /\ webhook = <<>>

NextMain ==
    \/ GetJsonLayers
    \/ ParseConfig
    \/ GetMapRotation
    \/ SkipFilter
    \/ CallSelector
    \/ Draw
    \/ GiveUp
    \/ WriteRotation
    \/ SendRotationToDiscord

SpecMain == InitMain /\ [][NextMain]_vars

\* the program is one sequential process: a step that can be taken is taken
FairSpecMain == SpecMain /\ WF_vars(NextMain)

-----------------------------------------------------------------------------
(* Notions the properties are stated with *)

\* the identifiers of the layers of a list are pairwise distinct
DistinctLayers(layers) ==
    \A i, j \in 1..Len(layers) : i # j => layers[i]["layer"] # layers[j]["layer"]

\* the errors of one kind among the logged ones
RECURSIVE CountErrors(_, _)
CountErrors(errors, kind) ==
    IF errors = <<>> THEN 0
    ELSE (IF Head(errors).error = kind THEN 1 ELSE 0) + CountErrors(Tail(errors), kind)

NoMapsCount == CountErrors(log, "No maps to choose from")
NoValidMapCount == CountErrors(log, "Could not get a valid map without duplicates")

\* the degraded branch was logged for this layer
LoggedDegraded(layer) == \E k \in 1..Len(log) : log[k] = NoValidMapError(layer["layer"])

\* the slots a config asks for: the seeding list, then repeat-count times the pattern list
SeedingLength(config) ==
    IF "starting_maps" \in DOMAIN config THEN Len(config["starting_maps"].l) ELSE 0
RepeatCount(config) ==
    IF "number_of_repeats" \in DOMAIN config THEN config["number_of_repeats"].n ELSE 1
PatternLength(config) == Len(config["regular_maps"].l)
TotalSlots(config) == SeedingLength(config) + RepeatCount(config) * PatternLength(config)

\* the place of the current slot among all the slots of the run, from 1
SlotNumber ==
    IF phase = "starting" THEN idx
    ELSE SeedingLength(rotation_config) + (rep - 1) * PatternLength(rotation_config) + idx

\* how many slots the run has finished with
SlotsProcessed == IF pc = "done" THEN TotalSlots(rotation_config) ELSE SlotNumber - 1

\* a layer satisfies a filter: for every attribute-name of the filter, the layer's value
\* for it (for team: its team1 or its team2) is one of the accepted values
AcceptedValues(value) == IF value.t = "list" THEN Range(value.l) ELSE {value.s}
SatisfiesClause(layer, clause) ==
    IF clause.key = "team"
    THEN Get(layer, "team1") \in AcceptedValues(clause.value)
         \/ Get(layer, "team2") \in AcceptedValues(clause.value)
    ELSE Get(layer, clause.key) \in AcceptedValues(clause.value)
Satisfies(layer, filter) ==
    \A k \in 1..Len(filter.m) : SatisfiesClause(layer, filter.m[k])

IsAnyFilter(filter) == filter.t = "str" /\ filter.s \in {"any", "ANY", "Any"}

\* the run has begun and has not raised
Building == pc \in {"populate", "select", "done"}

-----------------------------------------------------------------------------
(* C1: a rotation built from a catalog of pairwise distinct identifiers holds each
   identifier at most once, over the seeding slots and all repetitions of the pattern,
   degraded slots included *)
C1_NoDuplicateLayers ==
    DistinctLayers(catalog) => DistinctLayers(chosen_rotation)

\* a finished rotation over seeding and two repetitions, one slot of it degraded
C1_Witness ==
    /\ pc = "done"
    /\ "starting_maps" \in DOMAIN rotation_config
    /\ RepeatCount(rotation_config) = 2
    /\ Len(chosen_rotation) = 3
    /\ NoValidMapCount >= 1
    /\ DistinctLayers(catalog)

(* C2: with minimum distance K >= 1, two layers of the rotation at most K apart with the
   same map imply that the later one was chosen by the degraded branch, which logged the
   'Could not get a valid map without duplicates' error for it; so without such an error
   no two layers within distance K share a map *)
C2_RecencyOrLogged ==
    min_layers >= 1 =>
        /\ \A i, j \in 1..Len(chosen_rotation) :
              (i < j /\ j - i <= min_layers
                 /\ chosen_rotation[i]["map"] = chosen_rotation[j]["map"])
              => LoggedDegraded(chosen_rotation[j])
        /\ NoValidMapCount = 0 =>
              \A i, j \in 1..Len(chosen_rotation) :
                 (i < j /\ j - i <= min_layers)
                 => chosen_rotation[i]["map"] # chosen_rotation[j]["map"]

\* two layers of one map at distance 2 (not adjacent maps equal), the later one logged
C2_Witness ==
    /\ pc = "done"
    /\ min_layers = 2
    /\ \E j \in 3..Len(chosen_rotation) :
          /\ chosen_rotation[j - 2]["map"] = chosen_rotation[j]["map"]
          /\ chosen_rotation[j - 1]["map"] # chosen_rotation[j]["map"]
          /\ LoggedDegraded(chosen_rotation[j])

(* C3: the layer of every filled slot whose filter is not 'any' satisfies the filter: AND
   over the attribute-names, OR over the accepted values, team standing for team1 or
   team2; also when the layer came from the degraded branch *)
C3_FilterSatisfied ==
    \A j \in 1..Len(chosen_rotation) :
        ~IsAnyFilter(chosen_filters[j]) => Satisfies(chosen_rotation[j], chosen_filters[j])

\* a layer chosen under the two-clause team filter by the degraded branch, matching by team2 only
C3_Witness ==
    \E j \in 1..Len(chosen_rotation) :
        /\ chosen_filters[j] = FilterModeTeam
        /\ LoggedDegraded(chosen_rotation[j])
        /\ chosen_rotation[j]["team1"] # "US"

(* C4: the rotation is as long as the number of slots, among the len(seeding) +
   repeat-count * len(pattern) slots processed in order, that were not skipped for an
   empty filtered subset; with no skipped slot its final length is exactly
   len(seeding) + repeat-count * len(pattern) *)
C4_LengthIsFilledSlots ==
    Building =>
        /\ Len(chosen_rotation) + NoMapsCount = SlotsProcessed
        /\ (pc = "done" /\ NoMapsCount = 0)
              => Len(chosen_rotation) = TotalSlots(rotation_config)

\* a finished run of 2 + 2 * 1 slots, the first seeding slot skipped, the other three filled
C4_Witness ==
    /\ pc = "done"
    /\ SeedingLength(rotation_config) = 2
    /\ RepeatCount(rotation_config) = 2
    /\ TotalSlots(rotation_config) = 4
    /\ NoMapsCount = 1
    /\ Len(chosen_rotation) = 3

\* the slot being processed has no layer left after its filter
EmptyFilterCase ==
    pc = "populate" /\ ~FilterRaises(filter_config) /\ filtered_layers = <<>>

(* C5: a slot whose filter leaves no layer of the working pool logs exactly one 'No maps
   to choose from' error, appends nothing, leaves the pool as it is, does not call the
   selector (which is never entered with an empty list) and the run goes on with the next
   slot in order, ending only after the last slot *)
C5_SkipEmptyFilter ==
    /\ [](pc = "select" => filtered_layers # <<>>)
    /\ [][EmptyFilterCase =>
            /\ log' = Append(log, NoMapsError(filter_config))
            /\ chosen_rotation' = chosen_rotation
            /\ heap' = heap
            /\ remaining_layers' = remaining_layers
            /\ pc' \in {"populate", "done"}
            /\ pc' = "populate" => SlotNumber' = SlotNumber + 1
            /\ pc' = "done" => SlotNumber = TotalSlots(rotation_config)]_vars

\* the first seeding slot was skipped; the second seeding slot and both repetitions were filled
C5_Witness ==
    /\ pc = "done"
    /\ RepeatCount(rotation_config) = 2
    /\ Len(log) >= 1
    /\ log[1] = NoMapsError(FilterTeamMisspelled)
    /\ Len(chosen_rotation) = 3
    /\ Len(catalog) = 3
    /\ Len(Pool) = 0

\* every layer the selector can draw has the map of a layer of the window
AllCollide ==
    /\ pc = "select"
    /\ \A i \in 1..Len(filtered_layers) :
          filtered_layers[i]["map"] \in MapsToAvoid(chosen_rotation, min_layers)

\* the config asks for map A in every slot, with no seeding
SingleMapConfig ==
    /\ "starting_maps" \notin DOMAIN rotation_config
    /\ \A k \in 1..PatternLength(rotation_config) :
          rotation_config["regular_maps"].l[k] = FilterMapA

LayersOfMapA == Cardinality({i \in 1..Len(catalog) : catalog[i]["map"] = "A"})

(* C6: when every layer of the filtered subset collides with the window the selector does
   not fail: each of its MaxAttempts draws is a member of the filtered subset and is
   discarded, then exactly one 'Could not get a valid map without duplicates' error is
   logged, the last drawn candidate is returned and fills the slot, and the run goes on.
   A config of N slots of one map, over at least N layers of that map, gives a rotation of
   N layers and exactly N - 1 such errors *)
C6_DegradedBranch ==
    /\ []((pc = "done" /\ SingleMapConfig /\ min_layers >= 1
             /\ LayersOfMapA >= TotalSlots(rotation_config))
           => /\ Len(chosen_rotation) = TotalSlots(rotation_config)
              /\ NoValidMapCount = TotalSlots(rotation_config) - 1
              /\ Len(log) = TotalSlots(rotation_config) - 1)
    /\ [][AllCollide =>
            IF attempts < MaxAttempts
            THEN /\ pc' = "select"
                 /\ attempts' = attempts + 1
                 /\ candidate_layer' # <<>>
                 /\ candidate_layer'[1] \in Range(filtered_layers)
                 /\ log' = log
                 /\ chosen_rotation' = chosen_rotation
            ELSE /\ pc' \in {"populate", "done"}
                 /\ candidate_layer[1] \in Range(filtered_layers)
                 /\ log' = Append(log, NoValidMapError(candidate_layer[1]["layer"]))
                 /\ chosen_rotation' = Append(chosen_rotation, candidate_layer[1])]_vars

\* the run of two slots of map A over two or more layers of map A: full length, one error
C6_Witness ==
    /\ pc = "done"
    /\ SingleMapConfig
    /\ TotalSlots(rotation_config) = MaxRepeats
    /\ LayersOfMapA >= MaxRepeats
    /\ Len(chosen_rotation) = MaxRepeats
    /\ NoValidMapCount = MaxRepeats - 1

(* C7: the descriptions are parallel to the rotation, one per filled slot: the two are of
   one length, a skipped slot adds no description, and the description of a slot filled
   under 'any' is <<"any">> *)
C7_DescriptionsParallel ==
    /\ Len(descriptions) = Len(chosen_rotation)
    /\ Building => Len(descriptions) + NoMapsCount = SlotsProcessed
    /\ \A j \in 1..Len(chosen_filters) :
          IsAnyFilter(chosen_filters[j]) => descriptions[j] = <<"any">>

\* a finished run with a skipped slot, a slot filled under ANY and a slot filled under a filter
C7_Witness ==
    /\ pc = "done"
    /\ NoMapsCount >= 1
    /\ Len(descriptions) = 3
    /\ descriptions[1] = <<"any">>
    /\ chosen_filters[1] = FilterAnyUpper
    /\ descriptions[3] = <<"AAS", "RAAS", "US">>

(* C10: the list passed to the builder as the catalog is never changed: it holds the same
   layers in the same order whatever was removed from the working pool *)
C10_CatalogUnchanged ==
    heap["all_layers"] = catalog

\* a finished run that emptied the working pool of a catalog of three layers
C10_Witness ==
    /\ pc = "done"
    /\ Len(catalog) = 3
    /\ Len(chosen_rotation) = 3
    /\ Pool = <<>>
    /\ heap["all_layers"] = catalog

-----------------------------------------------------------------------------
(* The validator *)

\* validate_config has been called
Validated == pc \in {"validated", "raised"}

IsListOfSlots(config, key) == key \in DOMAIN config /\ config[key].t = "list"

\* the slots of the seeding and pattern lists of a config
ConfigSlots(config) ==
    (IF IsListOfSlots(config, "starting_maps") THEN Range(config["starting_maps"].l) ELSE {})
    \cup (IF IsListOfSlots(config, "regular_maps") THEN Range(config["regular_maps"].l) ELSE {})

\* the attribute-name is missing or null on some layer
MissingSomewhere(layers, key) == \E i \in 1..Len(layers) : Get(layers[i], key) = PyNone

PatternInvalid(config) ==
    \/ "regular_maps" \notin DOMAIN config
    \/ config["regular_maps"].t # "list"
    \/ Len(config["regular_maps"].l) = 0

RepeatCountInvalid(config) ==
    /\ "number_of_repeats" \in DOMAIN config
    /\ \/ config["number_of_repeats"].t # "int"
       \/ config["number_of_repeats"].n < 1

SlotInvalid(slot, layers) ==
    \/ ~IsAnyFilter(slot) /\ slot.t # "map"
    \/ /\ slot.t = "map"
       /\ \E k \in 1..Len(slot.m) :
             slot.m[k].key # "team" /\ MissingSomewhere(layers, slot.m[k].key)

(* C8: against a non-empty catalog the validator raises InvalidConfigException for every
   config whose pattern is missing, no list or empty, whose repeat count is no integer
   or below 1, that has a slot that is neither 'any' nor a mapping, or a mapping slot
   with an attribute-name other than team that is missing or null on some layer *)
C8_ValidatorRejects ==
    (/\ Validated
     /\ Len(catalog) >= 1
     /\ \/ PatternInvalid(rotation_config)
        \/ RepeatCountInvalid(rotation_config)
        \/ \E slot \in ConfigSlots(rotation_config) : SlotInvalid(slot, catalog))
    => (pc = "raised" /\ exc = "InvalidConfigException")

\* the same for the configs whose seeding section is not None
C8_RejectsUnlessSeedingNone ==
    (/\ "starting_maps" \in DOMAIN rotation_config
     /\ rotation_config["starting_maps"].t = "none")
    \/ C8_ValidatorRejects

\* the slot is 'any', or a mapping every attribute-name of which, team standing for team1
\* and team2, is non-null on every layer
SlotValid(slot, layers) ==
    \/ IsAnyFilter(slot)
    \/ /\ slot.t = "map"
       /\ \A k \in 1..Len(slot.m) :
             IF slot.m[k].key = "team"
             THEN ~MissingSomewhere(layers, "team1") /\ ~MissingSomewhere(layers, "team2")
             ELSE ~MissingSomewhere(layers, slot.m[k].key)

SectionValid(config, key, layers) ==
    /\ config[key].t = "list"
    /\ Len(config[key].l) >= 1
    /\ \A slot \in Range(config[key].l) : SlotValid(slot, layers)

(* C9: against a non-empty catalog the validator returns normally for every config whose
   pattern is a non-empty list, whose seeding is absent or a non-empty list, whose repeat
   count is absent or a positive integer, and whose slots are each 'any' or a mapping
   with attribute-names that are non-null on every layer; so for the config that holds
   only the pattern ['any'] *)
C9_ValidatorAccepts ==
    (/\ Validated
     /\ Len(catalog) >= 1
     /\ "regular_maps" \in DOMAIN rotation_config
     /\ SectionValid(rotation_config, "regular_maps", catalog)
     /\ "starting_maps" \in DOMAIN rotation_config
           => SectionValid(rotation_config, "starting_maps", catalog)
     /\ "number_of_repeats" \in DOMAIN rotation_config
           => (rotation_config["number_of_repeats"].t = "int"
               /\ rotation_config["number_of_repeats"].n >= 1))
    => (pc = "validated" /\ exc = "none")

\* the minimal config was accepted
C9_Witness ==
    /\ pc = "validated"
    /\ Len(catalog) >= 1
    /\ DOMAIN rotation_config = {"regular_maps"}
    /\ rotation_config["regular_maps"] = PyList(<<FilterAny>>)

-----------------------------------------------------------------------------
(* The runs of main and the direct calls of the builder *)

IsBugged(layer) == Truthy(Get(layer, "bugged"))

\* get_json_layers has returned
Loaded == entry = "main" /\ pc # "main" /\ \A i \in 1..Len(layers_file) : "bugged" \in DOMAIN layers_file[i]

(* C11 as stated: whatever catalog the builder is passed, no layer whose 'bugged' flag is
   true is in the rotation *)
C11_BuilderDropsBugged ==
    \A j \in 1..Len(chosen_rotation) : ~IsBugged(chosen_rotation[j])

(* C11 as amended: in a run of main the catalog the validator and the builder are handed
   is the layers file without its bugged layers, in order, so the rotation of a run of
   main holds no bugged layer; the builder itself samples from whatever catalog it is
   passed, and its rotation holds no bugged layer when that catalog holds none *)
C11_LoaderDropsBugged ==
    /\ Loaded =>
          /\ \A i \in 1..Len(catalog) : ~IsBugged(catalog[i])
          /\ \A i \in 1..Len(layers_file) :
                ~IsBugged(layers_file[i]) => layers_file[i] \in Range(catalog)
          /\ \A i, j \in 1..Len(catalog) :
                i < j => \E a, b \in 1..Len(layers_file) :
                            a < b /\ layers_file[a] = catalog[i] /\ layers_file[b] = catalog[j]
    /\ entry = "main" => \A j \in 1..Len(chosen_rotation) : ~IsBugged(chosen_rotation[j])
    /\ (\A i \in 1..Len(catalog) : ~IsBugged(catalog[i]))
          => \A j \in 1..Len(chosen_rotation) : ~IsBugged(chosen_rotation[j])

\* a finished run of main over a file of three layers, one of them bugged; both others chosen
C11_Witness ==
    /\ entry = "main"
    /\ pc = "exit"
    /\ Len(layers_file) = 3
    /\ \E i \in 1..Len(layers_file) : IsBugged(layers_file[i])
    /\ Len(catalog) = 2
    /\ Len(chosen_rotation) = 2

(* C12: a run is either rejected by the validator before the builder makes any draw, or
   the builder runs to completion and returns a rotation: a run of main that raises
   before its rotation is returned raised in the validator, and get_map_rotation on an
   accepted pair never raises *)
C12_RejectedOrCompletes ==
    (entry = "main" /\ Loaded /\ pc = "raised" /\ output_file = <<>>)
    => (remaining_layers = "unbound" /\ candidate_layer = <<>> /\ chosen_rotation = <<>>)

\* get_map_rotation has returned its rotation (line 226)
Returned ==
    \/ pc \in {"done", "written", "exit"}
    \/ pc = "raised" /\ output_file # <<>>
    \/ pc = "raised" /\ exc = "ConnectionError"

\* the slots of a config in the order of the run: the seeding list, then the pattern list
\* as many times as the repeat count
RECURSIVE Repeated(_, _)
Repeated(slots, n) == IF n <= 0 THEN <<>> ELSE slots \o Repeated(slots, n - 1)

AllSlots(config) ==
    (IF "starting_maps" \in DOMAIN config THEN config["starting_maps"].l ELSE <<>>)
    \o Repeated(config["regular_maps"].l, RepeatCount(config))

(* C13: for a config and a catalog the validator accepts, the rotation the builder returns
   is a list, and it is never silently empty: when it is empty, at least one error was
   logged, namely one 'No maps to choose from' error for each slot of the run, in order *)
C13_NeverSilentlyEmpty ==
    (Returned /\ validate_config(rotation_config, catalog) = "ok")
    => /\ DOMAIN chosen_rotation = 1..Len(chosen_rotation)
       /\ chosen_rotation = <<>> =>
             /\ Len(log) >= 1
             /\ Len(log) = Len(AllSlots(rotation_config))
             /\ \A k \in 1..Len(log) : log[k] = NoMapsError(AllSlots(rotation_config)[k])

\* a finished run of main whose only layer left by the loader has another map than both
\* slots ask for: an empty rotation, written out, and two errors
C13_Witness ==
    /\ entry = "main"
    /\ pc = "exit"
    /\ Len(catalog) = 1
    /\ chosen_rotation = <<>>
    /\ output_file = <<<<>>>>
    /\ log = <<NoMapsError(FilterMapA), NoMapsError(FilterMapA)>>

(* C14: in a run of main a failure of the post to the webhook is caught and does not
   propagate: once the rotation is written to the output file, the run does not end with
   an exception *)
C14_PostFailureCaught ==
    (entry = "main" /\ Returned /\ ~LayersStringRaises(chosen_rotation)
        /\ output_file = <<get_layers(chosen_rotation)>>)
    => pc \in {"done", "written", "exit"}

\* every layer of the catalog has the fields the selector reads
HasSelectorFields == \A i \in 1..Len(catalog) : {"map", "layer"} \subseteq DOMAIN catalog[i]

\* how many trailing layers of a rotation of n >= 1 layers a minimum distance d stands for
WindowLength(n, d) == IF d < 1 THEN 1 ELSE IF d > n THEN n ELSE d

\* the maps of the trailing w layers of the rotation
TrailingMaps(w) ==
    {chosen_rotation[k]["map"] : k \in (Len(chosen_rotation) - w + 1)..Len(chosen_rotation)}

\* the maps the selector is to avoid: none for an empty rotation
WindowMaps ==
    IF chosen_rotation = <<>> THEN {}
    ELSE TrailingMaps(WindowLength(Len(chosen_rotation), min_layers))

(* C15: for every minimum distance d, also 0, negative or larger than the rotation, and a
   rotation of n >= 1 layers, a draw of the selector is accepted exactly when the map of
   the candidate is not a map of the trailing max(1, min(n, d)) layers, and no step of the
   selector raises; with an empty rotation the window is empty, the first candidate drawn
   is accepted and no error is logged *)
C15_WindowClamped ==
    [][(pc = "select" /\ attempts < MaxAttempts /\ HasSelectorFields) =>
         /\ pc' # "raised"
         /\ attempts' = attempts + 1 =>
               /\ candidate_layer'[1]["map"] \in WindowMaps
               /\ chosen_rotation' = chosen_rotation
         /\ attempts' # attempts + 1 =>
               /\ Len(chosen_rotation') = Len(chosen_rotation) + 1
               /\ chosen_rotation'[Len(chosen_rotation')]["map"] \notin WindowMaps
         /\ chosen_rotation = <<>> =>
               /\ Len(chosen_rotation') = 1
               /\ log' = log]_vars

\* a candidate was discarded under a negative distance against a rotation of two layers
C15_Witness ==
    /\ pc = "select"
    /\ min_layers = -1
    /\ Len(chosen_rotation) = 2
    /\ attempts = 1
    /\ candidate_layer[1]["map"] = chosen_rotation[2]["map"]
    /\ candidate_layer[1]["map"] # chosen_rotation[1]["map"]

\* a layer matches a filter specification
Matches(layer, filter) == IsAnyFilter(filter) \/ Satisfies(layer, filter)

\* the layers of a list that match a filter, each once, in the order of the list
RECURSIVE MatchingLayers(_, _)
MatchingLayers(layers, filter) ==
    IF layers = <<>> THEN <<>>
    ELSE (IF Matches(Head(layers), filter) THEN <<Head(layers)>> ELSE <<>>)
         \o MatchingLayers(Tail(layers), filter)

(* C16: applying a filter specification to the pool yields exactly the layers of the pool
   that match it, in pool order, each at most once; also for a team filter and a layer
   whose team1 and team2 are both accepted *)
C16_FilterYieldsSubset ==
    (pc \in {"populate", "select"} /\ ~FilterRaises(filter_config))
    => filtered_layers = MatchingLayers(Pool, filter_config)

\* the run is over: main has ended or raised, the direct call has returned or raised
Halted == pc \in {"exit", "raised"} \/ (entry = "get_map_rotation" /\ pc = "done")

\* the builder goes on from the current slot to the next one in order, or returns after
\* the last one
ToNextSlot ==
    \/ pc' = "populate" /\ SlotNumber' = SlotNumber + 1
    \/ pc' = "done" /\ SlotNumber = Len(AllSlots(rotation_config))

(* C19: every run terminates; the builder takes the len(seeding) + repeat-count *
   len(pattern) slots one after the other, each once, in the order of the config (the
   seeding list first, and once the pattern has begun no seeding slot again, then the
   pattern list repeat-count times); the selector draws at most
   MaxAttempts times for a slot, and the first candidate drawn that does not collide with
   the window is accepted at once *)
C19_Terminates ==
    /\ <>Halted
    /\ [](attempts <= MaxAttempts)
    /\ [](pc \in {"populate", "select"} =>
            /\ SlotNumber \in 1..Len(AllSlots(rotation_config))
            /\ filter_config = AllSlots(rotation_config)[SlotNumber]
            /\ (phase = "starting") <=> (SlotNumber <= SeedingLength(rotation_config))
            /\ phase = "starting" => filter_config = rotation_config["starting_maps"].l[SlotNumber]
            /\ Len(chosen_rotation) + NoMapsCount = SlotNumber - 1)
    /\ [](pc = "done" =>
            Len(chosen_rotation) + NoMapsCount = Len(AllSlots(rotation_config)))
    /\ [][pc = "start" => (pc' = "populate" /\ SlotNumber' = 1)]_vars
    /\ [][(pc \in {"populate", "select"} /\ phase = "regular") => phase' = "regular"]_vars
    /\ [][pc = "populate" =>
            \/ pc' = "select" /\ SlotNumber' = SlotNumber /\ attempts' = 0
            \/ ToNextSlot /\ chosen_rotation' = chosen_rotation]_vars
    /\ [][pc = "select" =>
            IF attempts = MaxAttempts
            THEN ToNextSlot
            ELSE \/ /\ pc' = "select"
                    /\ SlotNumber' = SlotNumber
                    /\ attempts' = attempts + 1
                    /\ candidate_layer'[1]["map"] \in WindowMaps
                 \/ /\ ToNextSlot
                    /\ Len(chosen_rotation') = Len(chosen_rotation) + 1
                    /\ chosen_rotation'[Len(chosen_rotation')]["map"] \notin WindowMaps
                 \/ pc' = "raised"]_vars

\* a returned rotation of a direct call with a seeding list: two seeding slots, both
\* filled, the second after MaxAttempts colliding draws, then the pattern of two slots
\* twice, the last slots skipped for an empty pool
C19_Witness ==
    /\ entry = "get_map_rotation"
    /\ pc = "done"
    /\ phase = "regular"
    /\ SeedingLength(rotation_config) = Len(SeedingList)
    /\ Len(AllSlots(rotation_config)) = Len(SeedingList) + MaxRepeats * MaxPattern
    /\ Len(chosen_rotation) + NoMapsCount = Len(SeedingList) + MaxRepeats * MaxPattern
    /\ Len(chosen_rotation) = MaxCatalog
    /\ SubSeq(chosen_filters, 1, Len(SeedingList)) = SeedingList
    /\ log[1] = NoValidMapError(chosen_rotation[2]["layer"])
    /\ NoMapsCount >= 1
    /\ attempts = 0

\* the config holds a pattern and nothing else
PatternOnly == DOMAIN rotation_config = {"regular_maps"}

(* C20: for a config with no seeding key the builder fills no seeding slot, and with no
   repeat count it runs the pattern list once: the slots of a config that holds only a
   pattern of P slots are the P slots of the pattern, and when each of them has an
   eligible layer the returned rotation has exactly P layers, the i-th of which was chosen
   under the i-th filter of the pattern and matches it *)
C20_DefaultsPatternOnce ==
    PatternOnly =>
        /\ pc \in {"populate", "select"} => (phase = "regular" /\ rep = 1)
        /\ \A j \in 1..Len(chosen_filters) : chosen_filters[j] \in Range(rotation_config["regular_maps"].l)
        /\ Returned =>
              /\ Len(chosen_rotation) + NoMapsCount = PatternLength(rotation_config)
              /\ NoMapsCount = 0 =>
                    /\ Len(chosen_rotation) = PatternLength(rotation_config)
                    /\ \A i \in 1..Len(chosen_rotation) :
                          /\ chosen_filters[i] = rotation_config["regular_maps"].l[i]
                          /\ Matches(chosen_rotation[i], rotation_config["regular_maps"].l[i])

\* the run of main on the pattern of three slots over three layers: three layers chosen
C20_Witness ==
    /\ pc = "exit"
    /\ rotation_config = MakeDict({<<"regular_maps", PyList(AnyFilterAny)>>})
    /\ Len(chosen_rotation) = 3
    /\ NoMapsCount = 0
    /\ chosen_rotation[2]["map"] = "A"

-----------------------------------------------------------------------------
(* The validator: the team alias and the seeding section *)

\* a mapping slot with the key team
HasTeamKey(slot) == slot.t = "map" /\ \E k \in 1..Len(slot.m) : slot.m[k].key = "team"

(* C17: the validator accepts a slot with the key team only if team1 and team2 are both
   non-null on every layer: against a catalog in which some layer lacks team1 or team2,
   no config with a team key is accepted, whatever other attributes the layers have *)
C17_TeamNeedsBothSlots ==
    (/\ Validated
     /\ \E slot \in ConfigSlots(rotation_config) : HasTeamKey(slot)
     /\ MissingSomewhere(catalog, "team1") \/ MissingSomewhere(catalog, "team2"))
    => pc = "raised"

\* the seeding key is present and its value is no non-empty list
SeedingInvalid(config) ==
    /\ "starting_maps" \in DOMAIN config
    /\ \/ config["starting_maps"].t # "list"
       \/ Len(config["starting_maps"].l) = 0

(* C18: a config whose seeding key is present with a value that is no non-empty list (a
   str, an empty list, None) is rejected with InvalidConfigException, and the validator
   raises no other kind of exception for any config *)
C18_SeedingRejected ==
    /\ (Validated /\ SeedingInvalid(rotation_config))
          => (pc = "raised" /\ exc = "InvalidConfigException")
    /\ pc = "raised" => exc = "InvalidConfigException"

\* the same for the configs whose seeding section is not None
C18_RejectedUnlessNone ==
    (/\ "starting_maps" \in DOMAIN rotation_config
     /\ rotation_config["starting_maps"].t = "none")
    \/ C18_SeedingRejected



-----------------------------------------------------------------------------
\* the layers of a list that are not among the given ones, in the order of the list
Without(layers, taken) == SelectSeq(layers, LAMBDA l : l \notin taken)

\* how many times a layer occurs in a list
Occurrences(layers, l) == Cardinality({i \in 1..Len(layers) : layers[i] = l})

\* the working pool exists: line 206 has run
PoolBound == remaining_layers # "unbound"

\* the rotation and the working pool split the catalog between them
Partitioned ==
    /\ Range(chosen_rotation) \cap Range(Pool) = {}
    /\ \A k \in 1..Len(catalog) :
          Occurrences(chosen_rotation, catalog[k]) + Occurrences(Pool, catalog[k]) = 1
    /\ Range(chosen_rotation) \cup Range(Pool) = Range(catalog)
    /\ Len(chosen_rotation) + Len(Pool) = Len(catalog)
    /\ Len(chosen_rotation) <= Len(catalog)
    /\ Pool = Without(catalog, Range(chosen_rotation))

\* a step fills a slot: one layer of the pool goes to the end of the rotation, the layers
\* already there staying as they are and where they are
FillsSlot ==
    \E k \in 1..Len(Pool) :
        /\ chosen_rotation' = Append(chosen_rotation, Pool[k])
        /\ Pool' = [j \in 1..(Len(Pool) - 1) |-> IF j < k THEN Pool[j] ELSE Pool[j + 1]]
        /\ SubSeq(chosen_rotation', 1, Len(chosen_rotation)) = chosen_rotation

\* a step that leaves the rotation and the pool alone
KeepsBoth == chosen_rotation' = chosen_rotation /\ Pool' = Pool

\* a slot reached with an empty pool is skipped: the error is logged, nothing is appended
SkippedWhenExhausted ==
    (pc = "populate" /\ Pool = <<>>) =>
        /\ KeepsBoth
        /\ pc' # "select"
        /\ exc' = "none"
        /\ log' = Append(log, NoMapsError(filter_config))

(* C21: in a run of the builder on a catalog of pairwise distinct layers, from line 206 on
   the rotation built so far and the working pool partition the catalog: no layer is in
   both, every layer of the catalog is in exactly one of them, len(rotation) + len(pool)
   is the size of the catalog, and the rotation is never longer than the catalog; every
   step either leaves both alone or moves exactly one layer from the pool to the end of
   the rotation without changing or reordering the layers already in the rotation; and a
   slot reached when the pool is empty is skipped *)
C21_RotationAndPoolPartitionCatalog ==
    /\ []((DistinctLayers(catalog) /\ PoolBound) => Partitioned)
    /\ [][(DistinctLayers(catalog) /\ PoolBound) =>
             /\ FillsSlot \/ KeepsBoth
             /\ SkippedWhenExhausted]_vars

\* a finished run of more slots than the catalog has layers: the three layers are all in
\* the rotation, the pool is empty, and the last slot, an 'any' one, was skipped
C21_Witness ==
    /\ pc = "done"
    /\ DistinctLayers(catalog)
    /\ Len(catalog) = MaxCatalog
    /\ TotalSlots(rotation_config) > Len(catalog)
    /\ Len(chosen_rotation) = Len(catalog)
    /\ Pool = <<>>
    /\ Partitioned
    /\ log # <<>>
    /\ log[Len(log)] = NoMapsError(FilterAny)

=============================================================================
